---- MODULE Spec2Model ----
(***************************************************************************)
(* Model of app.py: the request flow of the code analyzer (upload, LLM     *)
(* call, HTML export, interactive rendering) and the regex segmentation    *)
(* of the LLM response into prose and mermaid parts.                       *)
(*                                                                         *)
(* A text is a sequence of lexemes.  Each lexeme stands for a fixed run of *)
(* characters of the response:                                             *)
(*    "F" = "```"      "M" = "mermaid"      "N" = "\n"      "a" = "A"      *)
(* Runs of backticks in a modelled text are therefore multiples of three,  *)
(* so every place where the regular expression can match lies on a lexeme  *)
(* boundary and matching on lexemes equals matching on characters.         *)
(***************************************************************************)
EXTENDS Integers, Sequences, FiniteSets

VARIABLES pc, response, html_content, parts, i, ui

vars == <<pc, response, html_content, parts, i, ui>>

\* ---------------------------------------------------------------- bounds

\* number of chunks an LLM response is assembled from
MaxChunks == 3

\* ---------------------------------------------------------------- texts

Lexemes == {"F", "M", "N", "a"}

\* "```mermaid\n", the literal prefix of the pattern
FenceOpen == <<"F", "M", "N">>

\* "\n```", the literal suffix of the pattern
FenceClose == <<"N", "F">>

\* a whole diagram block "```mermaid\nA\n```"
Block == <<"F", "M", "N", "a", "N", "F">>

\* a diagram block with blank lines around its text, "```mermaid\n\nA\n\n```"
PaddedBlock == <<"F", "M", "N", "N", "a", "N", "N", "F">>

\* prose ending a line, "A\n", and prose starting one, "\nA"
Intro == <<"a", "N">>

Outro == <<"N", "a">>

Chunks ==
    {<<"F">>, <<"M">>, <<"N">>, <<"a">>, FenceOpen, FenceClose, Block, PaddedBlock,
     Intro, Outro}

RECURSIVE Flatten(_)
Flatten(cs) == IF cs = <<>> THEN <<>> ELSE Head(cs) \o Flatten(Tail(cs))

\* the texts the LLM gateway may return
Responses == {Flatten(c) : c \in UNION {[1..n -> Chunks] : n \in 0..MaxChunks}}

\* marks a Python name that is not bound (yet)
Unbound == <<"unbound">>

\* uploaded_file.name
file_name == <<"upload.py">>

\* ---------------------------------------------------------------- str

\* str.isspace for one lexeme
IsSpace(c) == c = "N"

\* str.strip(): drop leading and trailing whitespace
RECURSIVE LStrip(_)
LStrip(t) == IF t # <<>> /\ IsSpace(Head(t)) THEN LStrip(Tail(t)) ELSE t

RECURSIVE RStrip(_)
RStrip(t) ==
    IF t # <<>> /\ IsSpace(t[Len(t)]) THEN RStrip(SubSeq(t, 1, Len(t) - 1)) ELSE t

strip(t) == RStrip(LStrip(t))

\* ---------------------------------------------------------------- regex

\* TRUE iff the literal lit occurs in t at position p (1-based)
LitAt(t, p, lit) ==
    /\ p >= 1
    /\ p + Len(lit) - 1 <= Len(t)
    /\ \A k \in 1..Len(lit) : t[p + k - 1] = lit[k]

SetMin(S) == CHOOSE x \in S : \A y \in S : x <= y

\* re.compile(r"```mermaid\n(.*?)\n```", re.DOTALL) of generate_html_report
mermaid_pattern_report == [open |-> FenceOpen, close |-> FenceClose]

\* re.compile(r"```mermaid\n(.*?)\n```", re.DOTALL) of the rendering logic
mermaid_pattern == [open |-> FenceOpen, close |-> FenceClose]

\* Positions where the closing literal can end a match that opens at s: the
\* lazy group (.*?) with DOTALL takes any characters, the fewest first.
Closers(pat, t, s) ==
    {e \in (s + Len(pat.open))..Len(t) : LitAt(t, e, pat.close)}

SetMax(S) == CHOOSE x \in S : \A y \in S : x >= y

\* MatchAt with a greedy group (.*): the match runs to the last closing
\* literal
MatchAt_greedy(pat, t, s) ==
    IF LitAt(t, s, pat.open) /\ Closers(pat, t, s) # {}
    THEN LET c == SetMax(Closers(pat, t, s))
         IN  [s |-> s, c |-> c, e |-> c + Len(pat.close)]
    ELSE <<>>

\* The match of pat in t that starts exactly at s: [s, c, e] with c the
\* position of the closing literal and e the first position after the match;
\* <<>> when there is none.
MatchAt(pat, t, s) ==
    IF LitAt(t, s, pat.open) /\ Closers(pat, t, s) # {}
    THEN LET c == SetMin(Closers(pat, t, s))
         IN  [s |-> s, c |-> c, e |-> c + Len(pat.close)]
    ELSE <<>>

\* pattern.search(t, pos): the leftmost match starting at or after pos
Search(pat, t, pos) ==
    LET starts == {s \in pos..Len(t) : MatchAt(pat, t, s) # <<>>}
    IN  IF starts = {} THEN <<>> ELSE MatchAt(pat, t, SetMin(starts))

\* re.split with one capturing group, scanning from position last: the text
\* before each match, the group of the match, ..., the text after the last
\* match.
RECURSIVE SplitFrom(_, _, _)
SplitFrom(pat, t, last) ==
    LET m == Search(pat, t, last)
    IN  IF m = <<>>
        THEN <<SubSeq(t, last, Len(t))>>
        ELSE <<SubSeq(t, last, m.s - 1),
               SubSeq(t, m.s + Len(pat.open), m.c - 1)>>
             \o SplitFrom(pat, t, m.e)

\* re_split handing out the diagram elements already trimmed
re_split_trimmed(pat, t) ==
    LET prts == SplitFrom(pat, t, 1)
    IN  [k \in 1..Len(prts) |-> IF k % 2 = 0 THEN strip(prts[k]) ELSE prts[k]]

\* re.split(pattern, string)
re_split(pat, t) == SplitFrom(pat, t, 1)

\* ---------------------------------------------------------------- export

\* HtmlPart embedding the diagram text as matched, not trimmed
HtmlPart_untrimmed(prts, k) ==
    IF (k - 1) % 2 = 0
    THEN [tag |-> "md_render", body |-> prts[k]]
    ELSE [tag |-> "div_mermaid", body |-> prts[k]]

\* the element of html_parts for parts[k] (Python index k - 1)
HtmlPart(prts, k) ==
    IF (k - 1) % 2 = 0
    THEN [tag |-> "md_render", body |-> prts[k]]
    ELSE [tag |-> "div_mermaid", body |-> strip(prts[k])]

\* generate_html_report(raw_markdown_content, file_name): the list html_parts
generate_html_report(raw, name) ==
    LET prts == re_split(mermaid_pattern_report, raw)
    IN  <<[tag |-> "head", body |-> name]>>
        \o [k \in 1..Len(prts) |-> HtmlPart(prts, k)]
        \o <<[tag |-> "script", body |-> <<>>]>>

\* ---------------------------------------------------------------- display

\* one call to the display host: the widget, its argument and whether the
\* call returned or raised
Call(w, arg, ok) == [w |-> w, arg |-> arg, ok |-> ok]

\* Catcher without the try statement around the diagram
Catcher_no_diagram_try(site) ==
    CASE site = "export" -> "export"
      [] OTHER -> "outer"

\* Catcher without the try statement around the export
Catcher_no_export_try(site) ==
    CASE site = "mermaid" -> "diagram"
      [] OTHER -> "outer"

\* Catcher with the diagram try statement around the whole loop body
Catcher_try_around_body(site) ==
    CASE site \in {"decode", "invoke"} -> "outer"
      [] site = "export" -> "export"
      [] OTHER -> "diagram"

\* The handler that catches an exception raised at a site, from the nesting
\* of the try statements.
Catcher(site) ==
    CASE site = "decode"  -> "outer"
      [] site = "invoke"  -> "outer"
      [] site = "export"  -> "export"
      [] site = "prose"   -> "outer"
      [] site = "mermaid" -> "diagram"

\* OuterExcept without the test that response is bound
OuterExcept_no_test ==
    <<Call("st.error", <<"unexpected">>, TRUE),
      Call("st.error", <<"raw_label">>, TRUE),
      Call("st.text", response, TRUE)>>

\* the body of the outer except clause
OuterExcept ==
    <<Call("st.error", <<"unexpected">>, TRUE)>>
    \o (IF response # Unbound
        THEN <<Call("st.error", <<"raw_label">>, TRUE),
               Call("st.text", response, TRUE)>>
        ELSE <<>>)

\* DiagramExcept showing the error only
DiagramExcept_error_only(part) ==
    <<Call("st.error", <<"diagram">>, TRUE)>>

\* the body of the except clause of the diagram try
DiagramExcept(part) ==
    <<Call("st.error", <<"diagram">>, TRUE), Call("st.code", strip(part), TRUE)>>

\* the body of the except clause of the export try
ExportExcept == <<Call("st.error", <<"export">>, TRUE)>>

\* what follows the export try statement: the divider and the split
AfterExport(log) ==
    /\ ui' = log \o <<Call("st.divider", <<>>, TRUE)>>
    /\ parts' = re_split(mermaid_pattern, response)
    /\ i' = 0
    /\ pc' = "render"

\* An exception raised at a site, log being the display calls so far
\* (the raising call included).
Raise(site, log) ==
    LET h == Catcher(site)
    IN  CASE h = "outer" ->
               /\ ui' = log \o OuterExcept
               /\ pc' = "done"
               /\ UNCHANGED <<parts, i>>
          [] h = "export" ->
               AfterExport(log \o ExportExcept)
          [] h = "diagram" ->
               /\ ui' = log \o DiagramExcept(parts[i + 1])
               /\ i' = i + 1
               /\ UNCHANGED <<pc, parts>>
          [] OTHER ->
               /\ pc' = "crashed"
               /\ ui' = log
               /\ UNCHANGED <<parts, i>>

\* ---------------------------------------------------------------- actions

Init ==
    /\ pc = "upload"
    /\ response = Unbound
    /\ html_content = Unbound
    /\ parts = <<>>
    /\ i = 0
    /\ ui = <<>>

\* uploaded_file.read().decode("utf-8") and the expander showing the code
Decode ==
    /\ pc = "upload"
    /\ UNCHANGED <<response, html_content>>
    /\ \E ok \in BOOLEAN :
         IF ok
         THEN /\ ui' = ui \o <<Call("st.expander.code", <<"python">>, TRUE)>>
              /\ pc' = "invoke"
              /\ UNCHANGED <<parts, i>>
         ELSE Raise("decode", ui)

\* chain.invoke(...) and the subheader
Invoke ==
    /\ pc = "invoke"
    /\ UNCHANGED html_content
    /\ \/ \E r \in Responses :
            /\ response' = r
            /\ ui' = ui \o <<Call("st.subheader", <<>>, TRUE)>>
            /\ pc' = "export"
            /\ UNCHANGED <<parts, i>>
       \/ /\ UNCHANGED response
          /\ Raise("invoke", ui)

\* the export try statement, then the divider and the split
Export ==
    /\ pc = "export"
    /\ UNCHANGED response
    /\ \/ /\ html_content' = generate_html_report(response, file_name)
          /\ AfterExport(ui \o <<Call("st.download_button", file_name, TRUE)>>)
       \/ /\ UNCHANGED html_content
          /\ Raise("export", ui)

\* one iteration of the loop with i even: st.markdown(part)
RenderProse ==
    /\ pc = "render"
    /\ i < Len(parts)
    /\ i % 2 = 0
    /\ UNCHANGED <<response, html_content>>
    /\ \E ok \in BOOLEAN :
         IF ok
         THEN /\ ui' = ui \o <<Call("st.markdown", parts[i + 1], TRUE)>>
              /\ i' = i + 1
              /\ UNCHANGED <<pc, parts>>
         ELSE Raise("prose", ui \o <<Call("st.markdown", parts[i + 1], FALSE)>>)

\* one iteration of the loop with i odd: the diagram try statement
RenderDiagram ==
    /\ pc = "render"
    /\ i < Len(parts)
    /\ i % 2 # 0
    /\ UNCHANGED <<response, html_content>>
    /\ \E ok \in BOOLEAN :
         IF ok
         THEN /\ ui' = ui \o <<Call("st_mermaid", strip(parts[i + 1]), TRUE),
                               Call("st.expander.code", strip(parts[i + 1]), TRUE)>>
              /\ i' = i + 1
              /\ UNCHANGED <<pc, parts>>
         ELSE Raise("mermaid", ui \o <<Call("st_mermaid", strip(parts[i + 1]), FALSE)>>)

\* the loop is exhausted
Finish ==
    /\ pc = "render"
    /\ i = Len(parts)
    /\ pc' = "done"
    /\ UNCHANGED <<response, html_content, parts, i, ui>>

Next == Decode \/ Invoke \/ Export \/ RenderProse \/ RenderDiagram \/ Finish

Spec == Init /\ [][Next]_vars

TypeOK ==
    /\ pc \in {"upload", "invoke", "export", "render", "done", "crashed"}
    /\ response = Unbound \/ response \in Seq(Lexemes)
    /\ \A k \in 1..Len(parts) : parts[k] \in Seq(Lexemes)
    /\ i \in 0..Len(parts)

\* ---------------------------------------------------------------- views

\* the split of the rendering logic has been computed
Rendering == pc \in {"render", "done"} /\ parts # <<>>

IsSegCall(c) == c.w \in {"st.markdown", "st_mermaid"}

\* the calls that render a segment, in the order made
SegCalls == SelectSeq(ui, IsSegCall)

IsMermaidCall(c) == c.w = "st_mermaid"

\* the diagram texts passed to st_mermaid, in order
MermaidArgs == LET cs == SelectSeq(ui, IsMermaidCall) IN [k \in 1..Len(cs) |-> cs[k].arg]

IsDiv(h) == h.tag = "div_mermaid"

\* the diagram texts of the <div class="mermaid"> containers, in order
DivBodies(html) == LET ds == SelectSeq(html, IsDiv) IN [k \in 1..Len(ds) |-> ds[k].body]

IsPrefix(a, b) == Len(a) <= Len(b) /\ SubSeq(b, 1, Len(a)) = a

Has(c) == \E k \in 1..Len(ui) : ui[k] = c

HasFailed(w) == \E k \in 1..Len(ui) : ui[k].w = w /\ ~ui[k].ok

\* the display calls made after the divider
AfterDivider ==
    LET d == CHOOSE k \in 1..Len(ui) : ui[k].w = "st.divider"
    IN  SubSeq(ui, d + 1, Len(ui))

\* position in the text of element j (1-based) of a split
RECURSIVE Off(_, _)
Off(prts, j) ==
    IF j = 1 THEN 1
    ELSE Off(prts, j - 1) + Len(prts[j - 1])
         + (IF (j - 1) % 2 = 1 THEN Len(FenceOpen) ELSE Len(FenceClose))

\* t has an opening literal at s with a closing literal somewhere after it
BlockOpensAt(t, s) ==
    LitAt(t, s, FenceOpen) /\ \E e \in (s + 3)..Len(t) : LitAt(t, e, FenceClose)

\* prts is t cut at its diagram blocks: odd length, elements in text order
\* covering t, element 2k the interior of a block that closes at the first
\* closing literal, element 2k+1 text in which no block opens
CutAtBlocks(t, prts) ==
    LET n == Len(prts)
        lo(j) == Off(prts, j)
        hi(j) == Off(prts, j) + Len(prts[j]) - 1
    IN  /\ n % 2 = 1
        /\ \A j \in 1..n : lo(j) >= 1 /\ hi(j) <= Len(t) /\ SubSeq(t, lo(j), hi(j)) = prts[j]
        /\ hi(n) = Len(t)
        /\ \A j \in 1..n :
             IF j % 2 = 0
             THEN /\ LitAt(t, lo(j) - Len(FenceOpen), FenceOpen)
                  /\ LitAt(t, hi(j) + 1, FenceClose)
                  /\ \A e \in lo(j)..hi(j) : ~LitAt(t, e, FenceClose)
             ELSE \A s \in lo(j)..hi(j) : ~BlockOpensAt(t, s)

\* ---------------------------------------------------------------- C1

\* C1: the split of a response (the exporter's, of the response it is about
\* to be given, and the rendering loop's) has odd length, its elements lie in
\* the text in order, the elements at odd Python index are the interiors of the
\* matched blocks and those at even Python index the text outside them; the
\* exporter and the interactive loop pick the kind of an element from the
\* parity of its index only.
C1_Parity ==
    /\ pc = "export" => CutAtBlocks(response, re_split(mermaid_pattern_report, response))
    /\ Rendering => CutAtBlocks(response, parts)
    /\ (Rendering /\ html_content # Unbound) =>
          /\ Len(html_content) = Len(parts) + 2
          /\ \A k \in 1..Len(parts) :
               html_content[k + 1].tag = IF (k - 1) % 2 = 0 THEN "md_render" ELSE "div_mermaid"
    /\ Rendering =>
          \A k \in 1..Len(SegCalls) :
             /\ k <= Len(parts)
             /\ SegCalls[k].w = IF (k - 1) % 2 = 0 THEN "st.markdown" ELSE "st_mermaid"
             /\ SegCalls[k].arg = IF (k - 1) % 2 = 0 THEN parts[k] ELSE strip(parts[k])

\* two diagram blocks, exported and rendered to the end
C1_Witness ==
    /\ pc = "done"
    /\ Len(parts) = 5
    /\ html_content # Unbound
    /\ Len(SegCalls) = 5

\* ---------------------------------------------------------------- C2

RECURSIVE Rejoin(_)
\* the elements of a split joined again, each diagram element between
\* "```mermaid\n" and "\n```"
Rejoin(prts) ==
    IF Len(prts) <= 1 THEN (IF prts = <<>> THEN <<>> ELSE prts[1])
    ELSE prts[1] \o FenceOpen \o prts[2] \o FenceClose \o Rejoin(SubSeq(prts, 3, Len(prts)))

\* C2: joining the elements of the split (the exporter's and the rendering
\* loop's), the diagram elements wrapped in their fence markers again, gives
\* back the response text.
C2_RoundTrip ==
    /\ pc = "export" => Rejoin(re_split(mermaid_pattern_report, response)) = response
    /\ Rendering => Rejoin(parts) = response

\* a split with a diagram element that has whitespace around its text
C2_Witness ==
    /\ Rendering
    /\ Len(parts) >= 3
    /\ \E k \in 1..Len(parts) : k % 2 = 0 /\ strip(parts[k]) # parts[k]

\* ---------------------------------------------------------------- C3

\* the rendering loop ran over every element
LoopComplete == Rendering /\ pc = "done" /\ i = Len(parts)

\* "Intro text\n```mermaid\nA-->B\n```\nOutro text" in lexemes
Example == Intro \o Block \o Outro

C4_DiagramIsolation ==
    /\ pc # "crashed"
    /\ \A k \in 1..Len(ui) :
         (ui[k].w = "st_mermaid" /\ ~ui[k].ok) =>
            /\ k + 2 <= Len(ui)
            /\ ui[k + 1] = Call("st.error", <<"diagram">>, TRUE)
            /\ ui[k + 2] = Call("st.code", ui[k].arg, TRUE)
    /\ (pc = "done" /\ parts # <<>> /\ ~HasFailed("st.markdown")) =>
         /\ i = Len(parts)
         /\ Len(SegCalls) = Len(parts)
         /\ \A k \in 1..Len(parts) :
              SegCalls[k].arg = IF k % 2 = 1 THEN parts[k] ELSE strip(parts[k])

\* the first of two diagrams failed and the loop still reached the end
C4_Witness ==
    /\ pc = "done"
    /\ Len(parts) = 5
    /\ Len(SegCalls) = 5
    /\ ~SegCalls[2].ok
    /\ SegCalls[4].ok
    /\ SegCalls[5].ok

\* ---------------------------------------------------------------- C5

\* C5 as stated: every diagram passed to st_mermaid, rendered or not, is
\* followed by the expander holding its source.
C5_ExpanderAlways ==
    \A k \in 1..Len(ui) :
       ui[k].w = "st_mermaid" =>
          \E n \in (k + 1)..Len(ui) :
             /\ n <= k + 2
             /\ ui[n] = Call("st.expander.code", ui[k].arg, TRUE)

\* C5 amended: every diagram passed to st_mermaid has its trimmed source
\* displayed right after it: inside the expander when the diagram rendered,
\* as a plain code block after the error indicator when it did not.
C5_SourceShown ==
    \A k \in 1..Len(ui) :
       ui[k].w = "st_mermaid" =>
          /\ \E j \in 1..Len(parts) : j % 2 = 0 /\ ui[k].arg = strip(parts[j])
          /\ IF ui[k].ok
             THEN /\ k + 1 <= Len(ui)
                  /\ ui[k + 1] = Call("st.expander.code", ui[k].arg, TRUE)
             ELSE /\ k + 2 <= Len(ui)
                  /\ ui[k + 1].w = "st.error"
                  /\ ui[k + 2] = Call("st.code", ui[k].arg, TRUE)
                  /\ \A n \in (k + 1)..Len(ui) :
                       ui[n].w = "st.expander.code" => \E m \in (k + 1)..(n - 1) : ui[m].w = "st_mermaid"

\* one diagram rendered and one failed
C5_Witness ==
    /\ pc = "done"
    /\ \E k \in 1..Len(ui) : ui[k].w = "st_mermaid" /\ ui[k].ok
    /\ \E k \in 1..Len(ui) : ui[k].w = "st_mermaid" /\ ~ui[k].ok

\* ---------------------------------------------------------------- C6

\* the export failed after the gateway had answered
ExportFailed == pc \in {"render", "done"} /\ response # Unbound /\ html_content = Unbound

\* The display calls of the rendering loop over prts, oks[k] telling whether
\* the call rendering element k returned: the report as it is rendered
\* whatever the export did.
RECURSIVE ReportCalls(_, _, _)
ReportCalls(prts, oks, k) ==
    IF k > Len(oks) THEN <<>>
    ELSE IF k % 2 = 1
         THEN IF oks[k]
              THEN <<Call("st.markdown", prts[k], TRUE)>> \o ReportCalls(prts, oks, k + 1)
              ELSE <<Call("st.markdown", prts[k], FALSE),
                     Call("st.error", <<"unexpected">>, TRUE),
                     Call("st.error", <<"raw_label">>, TRUE),
                     Call("st.text", response, TRUE)>>
         ELSE IF oks[k]
              THEN <<Call("st_mermaid", strip(prts[k]), TRUE),
                     Call("st.expander.code", strip(prts[k]), TRUE)>>
                   \o ReportCalls(prts, oks, k + 1)
              ELSE <<Call("st_mermaid", strip(prts[k]), FALSE),
                     Call("st.error", <<"diagram">>, TRUE),
                     Call("st.code", strip(prts[k]), TRUE)>>
                   \o ReportCalls(prts, oks, k + 1)

\* outcome of each segment call made so far
SegOks == [k \in 1..Len(SegCalls) |-> SegCalls[k].ok]

\* the export try statement has been passed and the report is being shown
ReportShown ==
    /\ Rendering
    /\ Has(Call("st.divider", <<>>, TRUE))
    /\ AfterDivider = ReportCalls(parts, SegOks, 1)
    /\ Len(SegCalls) = i + (IF HasFailed("st.markdown") THEN 1 ELSE 0)
    /\ (pc = "done" /\ ~HasFailed("st.markdown")) => Len(SegCalls) = Len(parts)

\* C6: after a failed export the inline error is shown, no download is
\* offered, and the report is rendered element by element exactly as after
\* a successful export.
C6_ExportIsolation ==
    /\ ExportFailed =>
          /\ Has(Call("st.error", <<"export">>, TRUE))
          /\ ~Has(Call("st.download_button", file_name, TRUE))
          /\ ReportShown
    /\ (pc \in {"render", "done"} /\ html_content # Unbound) => ReportShown

\* the export failed and a report with a diagram was rendered to the end
C6_Witness ==
    /\ ExportFailed
    /\ pc = "done"
    /\ Len(parts) >= 3
    /\ Len(SegCalls) = Len(parts)
    /\ \A k \in 1..Len(SegCalls) : SegCalls[k].ok

\* ---------------------------------------------------------------- C7

RawShown == response # Unbound /\ Has(Call("st.text", response, TRUE))

ErrorShown == \E k \in 1..Len(ui) : ui[k].w = "st.error"

\* a call raised, or the export did, after the gateway had answered
FailedAfterGateway ==
    /\ response # Unbound
    /\ \/ html_content = Unbound /\ pc \in {"render", "done"}
       \/ \E k \in 1..Len(ui) : ~ui[k].ok

ReportComplete ==
    /\ Rendering
    /\ i = Len(parts)
    /\ Len(SegCalls) = Len(parts)

\* C7 as stated: no failure leaves the request, a finished request shows the
\* report or an error, and the raw response is shown after every failure
\* that follows the gateway's answer and after none that precedes it.
C7_AllFailuresShowRaw ==
    /\ pc # "crashed"
    /\ pc = "done" =>
         /\ ReportComplete \/ ErrorShown
         /\ FailedAfterGateway => RawShown
         /\ response = Unbound => ~Has(Call("st.error", <<"raw_label">>, TRUE))

\* C7 amended: no failure leaves the request and a finished request shows
\* the report or an error; every failure shows an inline error; the raw
\* response is shown exactly when the outer handler ran after the gateway
\* had answered (a prose element failed to render), and neither after a
\* decode or gateway failure nor after a failure that only the export or a
\* diagram handler caught.
C7_FailuresCaught ==
    /\ pc # "crashed"
    /\ pc = "done" =>
         /\ ReportComplete \/ ErrorShown
         /\ (response = Unbound \/ FailedAfterGateway) => ErrorShown
         /\ RawShown <=> (response # Unbound /\ HasFailed("st.markdown"))
         /\ RawShown =>
              /\ Len(ui) >= 3
              /\ ui[Len(ui) - 2] = Call("st.error", <<"unexpected">>, TRUE)
              /\ ui[Len(ui) - 1] = Call("st.error", <<"raw_label">>, TRUE)
              /\ ui[Len(ui)] = Call("st.text", response, TRUE)
         /\ response = Unbound =>
              /\ ui[Len(ui)] = Call("st.error", <<"unexpected">>, TRUE)
              /\ ~Has(Call("st.error", <<"raw_label">>, TRUE))
              /\ \A k \in 1..Len(ui) : ui[k].w # "st.text"

\* a request ended by a prose failure after the gateway answered, with the
\* raw response shown
C7_Witness ==
    /\ pc = "done"
    /\ HasFailed("st.markdown")
    /\ RawShown
    /\ Len(parts) >= 3

\* ---------------------------------------------------------------- C10

DownloadOffered == Has(Call("st.download_button", file_name, TRUE))

\* after a failed st.markdown call nothing but the outer handler's output
\* follows, and the request is over
ProseFailureEnds ==
    \A k \in 1..Len(ui) :
       (ui[k].w = "st.markdown" /\ ~ui[k].ok) =>
          /\ pc = "done"
          /\ SubSeq(ui, k + 1, Len(ui)) =
               <<Call("st.error", <<"unexpected">>, TRUE),
                 Call("st.error", <<"raw_label">>, TRUE),
                 Call("st.text", response, TRUE)>>
          /\ Len(SegCalls) = i + 1
          /\ i % 2 = 0
          /\ DownloadOffered <=> html_content # Unbound

\* C10: a prose element that fails to render ends the report: no later
\* element is rendered, the unexpected-error message and the raw LLM output
\* follow, and a download button offered before stays offered.
C10_ProseFailureAborts ==
    /\ []ProseFailureEnds
    /\ [][DownloadOffered => DownloadOffered']_vars

\* a prose element in the middle of a report failed after the download was
\* offered
C10_Witness ==
    /\ pc = "done"
    /\ HasFailed("st.markdown")
    /\ DownloadOffered
    /\ i >= 2
    /\ i + 1 < Len(parts)

\* ---------------------------------------------------------------- C8

\* an opening marker "```mermaid" on a line of its own at p
OpenerLineAt(t, p) ==
    /\ LitAt(t, p, FenceOpen)
    /\ p = 1 \/ t[p - 1] = "N"

\* a closing fence "```" on a line of its own at q
CloserLineAt(t, q) ==
    /\ q >= 2
    /\ q <= Len(t)
    /\ t[q] = "F"
    /\ t[q - 1] = "N"
    /\ q = Len(t) \/ t[q + 1] = "N"

\* the well-formed fence pairs of t from position pos on, taken left to
\* right: the first opening line, the first closing line after it, and so on
RECURSIVE WellFormedPairs(_, _)
WellFormedPairs(t, pos) ==
    LET ps == {p \in pos..Len(t) :
                 OpenerLineAt(t, p) /\ \E q \in (p + 3)..Len(t) : CloserLineAt(t, q)}
    IN  IF ps = {} THEN 0
        ELSE LET p == SetMin(ps)
                 q == SetMin({x \in (p + 3)..Len(t) : CloserLineAt(t, x)})
             IN  1 + WellFormedPairs(t, q + 1)

NumDiagrams(prts) == Len(prts) \div 2

\* C8: the split has as many diagram elements as the text has well-formed
\* fence pairs, an opening marker and a closing fence each on a line of its
\* own.
C8_CountsWellFormedPairs ==
    Rendering => NumDiagrams(parts) = WellFormedPairs(response, 1)

\* ---------------------------------------------------------------- C9

\* an opening marker line at p with no fence token anywhere after it
UnterminatedAt(t, p) ==
    /\ OpenerLineAt(t, p)
    /\ \A q \in (p + 2)..Len(t) : t[q] # "F"

IsSuffix(a, b) == Len(a) <= Len(b) /\ SubSeq(b, Len(b) - Len(a) + 1, Len(b)) = a

\* C9: an opening marker with no closing fence after it stays, marker
\* included, in the last prose element and opens no diagram; a text without
\* any opening marker splits into itself alone.
C9_UnterminatedStaysProse ==
    Rendering =>
       /\ \A p \in 1..Len(response) :
            UnterminatedAt(response, p) =>
               IsSuffix(SubSeq(response, p, Len(response)), parts[Len(parts)])
       /\ (\A p \in 1..Len(response) : ~LitAt(response, p, <<"F", "M">>)) =>
             parts = <<response>>

====
